---- MODULE Spec2Model ----
(***************************************************************************)
(* micro-flag.h: micro_flag_parse as a state machine.                      *)
(*                                                                         *)
(* A C string is a tuple of one-character strings, so that strcmp, strlen, *)
(* strtol and strtod are computed character by character.  The argument    *)
(* vector and the flag table are functions over 0..n-1, as in C.           *)
(* One step of the machine is one test of a loop condition together with   *)
(* the loop body it guards: the outer test at line 208, one iteration of   *)
(* the scan over the flags (lines 212-299), the test after the scan        *)
(* (lines 300-305).                                                        *)
(***************************************************************************)
EXTENDS Integers, Sequences, FiniteSets, TLC

\* ------------------------------------------------------------------------
\* Bounds of the model
\* ------------------------------------------------------------------------
MaxFlags == 2
MaxArgc == 3

\* ------------------------------------------------------------------------
\* Types (micro-flag.h:118-156)
\* ------------------------------------------------------------------------
MICRO_FLAG_OK == "MICRO_FLAG_OK"
MICRO_FLAG_ERROR_UNKNOWN_TYPE == "MICRO_FLAG_ERROR_UNKNOWN_TYPE"
MICRO_FLAG_ERROR_MISSING_CHAR == "MICRO_FLAG_ERROR_MISSING_CHAR"
MICRO_FLAG_ERROR_MISSING_STR == "MICRO_FLAG_ERROR_MISSING_STR"
MICRO_FLAG_ERROR_MISSING_INT == "MICRO_FLAG_ERROR_MISSING_INT"
MICRO_FLAG_ERROR_MISSING_DOUBLE == "MICRO_FLAG_ERROR_MISSING_DOUBLE"
MICRO_FLAG_ERROR_CHAR_WRONG_ARG == "MICRO_FLAG_ERROR_CHAR_WRONG_ARG"
MICRO_FLAG_ERROR_UNKNOWN_FLAG == "MICRO_FLAG_ERROR_UNKNOWN_FLAG"
MICRO_FLAG_ERROR_NOT_AN_INT == "MICRO_FLAG_ERROR_NOT_AN_INT"
MICRO_FLAG_ERROR_NOT_A_DOUBLE == "MICRO_FLAG_ERROR_NOT_A_DOUBLE"

MICRO_FLAG_BOOL == "MICRO_FLAG_BOOL"
MICRO_FLAG_CHAR == "MICRO_FLAG_CHAR"
MICRO_FLAG_STR == "MICRO_FLAG_STR"
MICRO_FLAG_INT == "MICRO_FLAG_INT"
MICRO_FLAG_DOUBLE == "MICRO_FLAG_DOUBLE"
\* the enumerator past the last kind: a type value no case of the switch names
_MICRO_FLAG_MAX == "_MICRO_FLAG_MAX"

\* the null pointer, as a name of a flag or an argv slot past the end
NULL == <<"NULL">>

\* a MicroFlag: the description is not read by micro_flag_parse; the value
\* pointer of flags[f] is the cell dest[f]
MicroFlag(t, s, l) == [type |-> t, short_name |-> s, long_name |-> l]

\* ------------------------------------------------------------------------
\* <string.h>, <stdlib.h>, <limits.h> as micro_flag_parse uses them
\* ------------------------------------------------------------------------
Digits == <<"0", "1", "2", "3", "4", "5", "6", "7", "8", "9">>

IsDigit(c) == \E d \in 1..10 : Digits[d] = c

DigitVal(c) == (CHOOSE d \in 1..10 : Digits[d] = c) - 1

IsSpace(c) == c \in {" ", "\t", "\n"}

\* strcmp(a, b) == 0
strcmp0(a, b) == a = b

strlen(s) == Len(s)

\* first position >= p of s that holds no character of the class, Len(s)+1 if none
RECURSIVE SkipSpace(_, _)
SkipSpace(s, p) ==
  IF p <= Len(s) /\ IsSpace(s[p]) THEN SkipSpace(s, p + 1) ELSE p

RECURSIVE SkipDigits(_, _)
SkipDigits(s, p) ==
  IF p <= Len(s) /\ IsDigit(s[p]) THEN SkipDigits(s, p + 1) ELSE p

\* a digit string without its leading zeros
RECURSIVE StripZeros(_)
StripZeros(d) ==
  IF Len(d) > 1 /\ d[1] = "0" THEN StripZeros(Tail(d)) ELSE d

\* a > b for digit strings without leading zeros
RECURSIVE LexGT(_, _)
LexGT(a, b) ==
  IF a = << >> THEN FALSE
  ELSE IF DigitVal(a[1]) # DigitVal(b[1]) THEN DigitVal(a[1]) > DigitVal(b[1])
  ELSE LexGT(Tail(a), Tail(b))

DigitsGT(a, b) ==
  LET x == StripZeros(a)
      y == StripZeros(b)
  IN  IF Len(x) # Len(y) THEN Len(x) > Len(y) ELSE LexGT(x, y)

\* limits of int and of long (LP64), as the magnitudes of their decimal forms
INT_MAX == <<"2", "1", "4", "7", "4", "8", "3", "6", "4", "7">>
INT_MIN == <<"2", "1", "4", "7", "4", "8", "3", "6", "4", "8">>
LONG_MAX == <<"9", "2", "2", "3", "3", "7", "2", "0", "3", "6",
              "8", "5", "4", "7", "7", "5", "8", "0", "7">>
LONG_MIN == <<"9", "2", "2", "3", "3", "7", "2", "0", "3", "6",
              "8", "5", "4", "7", "7", "5", "8", "0", "8">>

\* the value of a digit string with the sign folded in at every step, so that
\* the magnitude of INT_MIN is never formed
RECURSIVE Accumulate(_, _, _)
Accumulate(d, sgn, acc) ==
  IF d = << >> THEN acc
  ELSE Accumulate(Tail(d), sgn, acc * 10 + sgn * DigitVal(d[1]))

\* strtol(s, &endptr, 10): endptr is the number of characters consumed (0:
\* endptr == s).  A long wider than int is kept as its class: gt_max is
\* val > INT_MAX, lt_min is val < INT_MIN, and val is exact otherwise.
strtol(s) ==
  LET p0 == SkipSpace(s, 1)
      neg == p0 <= Len(s) /\ s[p0] = "-"
      p1 == IF p0 <= Len(s) /\ s[p0] \in {"-", "+"} THEN p0 + 1 ELSE p0
      p2 == SkipDigits(s, p1)
      d == SubSeq(s, p1, p2 - 1)
      erange == IF neg THEN DigitsGT(d, LONG_MIN) ELSE DigitsGT(d, LONG_MAX)
      gt_max == ~neg /\ DigitsGT(d, INT_MAX)
      lt_min == neg /\ DigitsGT(d, INT_MIN)
  IN  IF p2 = p1
      THEN [endptr |-> 0, erange |-> FALSE, gt_max |-> FALSE, lt_min |-> FALSE,
            val |-> 0]
      ELSE [endptr |-> p2 - 1, erange |-> erange, gt_max |-> gt_max,
            lt_min |-> lt_min,
            val |-> IF gt_max \/ lt_min THEN 0
                    ELSE Accumulate(d, IF neg THEN -1 ELSE 1, 0)]

\* the largest decimal exponent of a finite double (DBL_MAX_10_EXP)
DBL_MAX_10_EXP == 308

\* strtod(s, &endptr) on decimal input: optional sign, digits, optional
\* fraction, optional exponent.  The value is (-1)^neg * mant * 10^exp, kept
\* as the triple with mant as its digit string.
strtod(s) ==
  LET p0 == SkipSpace(s, 1)
      neg == p0 <= Len(s) /\ s[p0] = "-"
      p1 == IF p0 <= Len(s) /\ s[p0] \in {"-", "+"} THEN p0 + 1 ELSE p0
      p2 == SkipDigits(s, p1)
      hasdot == p2 <= Len(s) /\ s[p2] = "."
      p3 == IF hasdot THEN SkipDigits(s, p2 + 1) ELSE p2
      ip == SubSeq(s, p1, p2 - 1)
      fp == IF hasdot THEN SubSeq(s, p2 + 1, p3 - 1) ELSE << >>
      nodigits == ip = << >> /\ fp = << >>
      hase == p3 <= Len(s) /\ s[p3] \in {"e", "E"}
      q0 == p3 + 1
      eneg == hase /\ q0 <= Len(s) /\ s[q0] = "-"
      q1 == IF hase /\ q0 <= Len(s) /\ s[q0] \in {"-", "+"} THEN q0 + 1 ELSE q0
      q2 == IF hase THEN SkipDigits(s, q1) ELSE q1
      hasexp == hase /\ q2 > q1
      ex == IF hasexp
            THEN Accumulate(SubSeq(s, q1, q2 - 1), IF eneg THEN -1 ELSE 1, 0)
            ELSE 0
      mant == StripZeros(ip \o fp)
      e10 == ex - Len(fp)
  IN  IF nodigits
      THEN [endptr |-> 0, erange |-> FALSE,
            val |-> [neg |-> FALSE, mant |-> <<"0">>, exp |-> 0]]
      ELSE [endptr |-> (IF hasexp THEN q2 ELSE p3) - 1,
            erange |-> mant # <<"0">> /\ e10 + Len(mant) - 1 > DBL_MAX_10_EXP,
            val |-> [neg |-> neg, mant |-> mant, exp |-> e10]]

\* ------------------------------------------------------------------------
\* The inputs of the model
\* ------------------------------------------------------------------------
t_h == <<"-", "h">>
t_help == <<"-", "-", "h", "e", "l", "p">>
t_o == <<"-", "o">>
t_n == <<"-", "n">>
t_x == <<"-", "x">>
t_5 == <<"5">>
t_12abc == <<"1", "2", "a", "b", "c">>
t_A == <<"A">>
t_m3p5 == <<"-", "3", ".", "5">>
t_big == <<"2", "1", "4", "7", "4", "8", "3", "6", "4", "8">>
t_out == <<"o", "u", "t">>
t_prog == <<"e", "x", "a", "m", "p", "l", "e">>

\* the tokens argv[1..] is drawn from
TokenPool == {t_h, t_help, t_o, t_n, t_x, t_5, t_12abc, t_A, t_m3p5, t_big}

\* the flags a table is drawn from
FlagPool ==
  { MicroFlag(MICRO_FLAG_BOOL, t_h, t_help),
    MicroFlag(MICRO_FLAG_STR, t_o, NULL),
    MicroFlag(MICRO_FLAG_CHAR, NULL, t_o),
    MicroFlag(MICRO_FLAG_INT, t_n, NULL),
    MicroFlag(MICRO_FLAG_DOUBLE, t_n, NULL),
    MicroFlag(MICRO_FLAG_INT, t_h, NULL),
    MicroFlag(MICRO_FLAG_BOOL, t_x, NULL),
    MicroFlag(_MICRO_FLAG_MAX, t_x, NULL) }

\* the caller's defaults (example.c:21-25); one cell per flag, read through
\* the field of the flag's kind
DefaultCell ==
  [b |-> FALSE, c |-> "A", s |-> t_out, n |-> 0,
   d |-> [neg |-> FALSE, mant |-> <<"1", "2", "3", "1", "2", "3">>, exp |-> -3]]

\* ------------------------------------------------------------------------
\* State
\* ------------------------------------------------------------------------
VARIABLES
  flags, num_flags, argc, argv,   \* the arguments of micro_flag_parse
  dest,                           \* the cells the value pointers point to
  i, flag, found,                 \* the locals
  pc, ret,                        \* position in the function, returned value
  out,                            \* the lines printed to standard output
  compared,                       \* indices k whose argv[k] strcmp has read
  consumed,                       \* indices k whose argv[k] was read as a value
  written,                        \* flags whose destination has been written
  starts                          \* values of i at the head of the scan (line 210)

vars == <<flags, num_flags, argc, argv, dest, i, flag, found, pc, ret, out,
          compared, consumed, written, starts>>

args == <<flags, num_flags, argc, argv>>

\* argv[k]; past the end of the vector the read is out of bounds
ArgAt(k) == IF k \in DOMAIN argv THEN argv[k] ELSE NULL

Init ==
  /\ num_flags \in 0..MaxFlags
  /\ flags \in [0..(num_flags - 1) -> FlagPool]
  /\ argc \in 0..MaxArgc
  /\ argv \in [0..(argc - 1) -> TokenPool \cup {t_prog}]
  /\ argc > 0 => argv[0] = t_prog
  /\ \A k \in 1..(argc - 1) : argv[k] \in TokenPool
  /\ dest = [f \in 0..(num_flags - 1) |-> DefaultCell]
  /\ i = 1
  /\ flag = 0
  /\ found = FALSE
  /\ pc = "outer"
  /\ ret = "none"
  /\ out = << >>
  /\ compared = {}
  /\ consumed = {}
  /\ written = {}
  /\ starts = {}

\* ------------------------------------------------------------------------
\* micro_flag_parse (micro-flag.h:203-308)
\* ------------------------------------------------------------------------

\* lines 214-215: the short or the long name equals the token
Matches(f, tok) ==
  \/ (f.short_name # NULL /\ strcmp0(f.short_name, tok))
  \/ (f.long_name # NULL /\ strcmp0(f.long_name, tok))

\* lines 214-215: strcmp reads argv[i] unless both names are null
ReadsToken(f) == f.short_name # NULL \/ f.long_name # NULL

\* the test off by one: a flag at the last token is taken to have a value
MissingValueOffByOne == i + 1 > argc

\* lines 224, 242, 253, 275: no token follows the flag
MissingValue == i + 1 >= argc

\* lines 263-264
IntRejected(r) == r.endptr = 0 \/ r.erange \/ r.gt_max \/ r.lt_min

\* line 285
DoubleRejected(r) == r.endptr = 0 \/ r.erange

\* printf("Usage: %s,%s <kind>\n", short_name, long_name)
Usage(f, kind) == <<"Usage", f.short_name, f.long_name, kind>>

\* break in place of return: the value is kept and the scan goes on
ReturnBreak(err) ==
  /\ ret' = err
  /\ pc' = pc

\* return err: the call is over
Return(err) ==
  /\ ret' = err
  /\ pc' = "done"

\* a return on an error path after its printf: nothing else is touched
Fail(line, err) ==
  /\ out' = Append(out, line)
  /\ Return(err)
  /\ UNCHANGED <<dest, i, flag, found, written>>

\* the end of a case that consumed argv[i+1]: i++, break, ++flag
Consume(cell) ==
  /\ dest' = [dest EXCEPT ![flag] = cell]
  /\ written' = written \cup {flag}
  /\ i' = i + 1
  /\ flag' = flag + 1
  /\ found' = TRUE
  /\ UNCHANGED <<pc, ret, out>>

\* the flag the scan is at matches the token at the cursor
AtMatch(type) ==
  /\ pc = "inner"
  /\ flag < num_flags
  /\ Matches(flags[flag], ArgAt(i))
  /\ flags[flag].type = type
  /\ compared' = compared \cup {i}
  /\ UNCHANGED <<args, starts>>

\* line 208: i < argc, and the head of the body (line 210)
OuterEnter ==
  /\ pc = "outer"
  /\ i < argc
  /\ found' = FALSE
  /\ flag' = 0
  /\ pc' = "inner"
  /\ starts' = starts \cup {i}
  /\ UNCHANGED <<args, dest, i, ret, out, compared, consumed, written>>

\* line 208 fails, line 307
ReturnOk ==
  /\ pc = "outer"
  /\ ~(i < argc)
  /\ Return(MICRO_FLAG_OK)
  /\ UNCHANGED <<args, dest, i, flag, found, out, compared, consumed, written, starts>>

\* lines 212-215: the flag does not match, ++flag
NoMatch ==
  /\ pc = "inner"
  /\ flag < num_flags
  /\ ~Matches(flags[flag], ArgAt(i))
  /\ compared' = IF ReadsToken(flags[flag]) THEN compared \cup {i} ELSE compared
  /\ flag' = flag + 1
  /\ UNCHANGED <<args, dest, i, found, pc, ret, out, consumed, written, starts>>

\* the Bool case toggling the destination
MatchBoolToggle ==
  /\ AtMatch(MICRO_FLAG_BOOL)
  /\ found' = TRUE
  /\ dest' = [dest EXCEPT ![flag].b = ~dest[flag].b]
  /\ written' = written \cup {flag}
  /\ flag' = flag + 1
  /\ UNCHANGED <<i, pc, ret, out, consumed>>

\* lines 220-222
MatchBool ==
  /\ AtMatch(MICRO_FLAG_BOOL)
  /\ found' = TRUE
  /\ dest' = [dest EXCEPT ![flag].b = TRUE]
  /\ written' = written \cup {flag}
  /\ flag' = flag + 1
  /\ UNCHANGED <<i, pc, ret, out, consumed>>

\* lines 223-240
MatchChar ==
  /\ AtMatch(MICRO_FLAG_CHAR)
  /\ IF MissingValue
     THEN /\ Fail(Usage(flags[flag], "<char>"), MICRO_FLAG_ERROR_MISSING_CHAR)
          /\ UNCHANGED consumed
     ELSE /\ consumed' = consumed \cup {i + 1}
          /\ IF strlen(ArgAt(i + 1)) # 1
             THEN Fail(Usage(flags[flag], "<char>"), MICRO_FLAG_ERROR_CHAR_WRONG_ARG)
             ELSE Consume([dest[flag] EXCEPT !.c = ArgAt(i + 1)[1]])

\* lines 241-251
MatchStr ==
  /\ AtMatch(MICRO_FLAG_STR)
  /\ IF MissingValue
     THEN /\ Fail(Usage(flags[flag], "<string>"), MICRO_FLAG_ERROR_MISSING_STR)
          /\ UNCHANGED consumed
     ELSE /\ consumed' = consumed \cup {i + 1}
          /\ Consume([dest[flag] EXCEPT !.s = ArgAt(i + 1)])

\* lines 252-273
MatchInt ==
  /\ AtMatch(MICRO_FLAG_INT)
  /\ IF MissingValue
     THEN /\ Fail(Usage(flags[flag], "<integer>"), MICRO_FLAG_ERROR_MISSING_INT)
          /\ UNCHANGED consumed
     ELSE /\ consumed' = consumed \cup {i + 1}
          /\ LET r == strtol(ArgAt(i + 1))
             IN  IF IntRejected(r)
                 THEN Fail(Usage(flags[flag], "<integer>"), MICRO_FLAG_ERROR_NOT_AN_INT)
                 ELSE Consume([dest[flag] EXCEPT !.n = r.val])

\* the Double case with the return of the Int case left in after copying
MatchDoubleCopied ==
  /\ AtMatch(MICRO_FLAG_DOUBLE)
  /\ IF MissingValue
     THEN /\ Fail(Usage(flags[flag], "<double>"), MICRO_FLAG_ERROR_MISSING_INT)
          /\ UNCHANGED consumed
     ELSE /\ consumed' = consumed \cup {i + 1}
          /\ LET r == strtod(ArgAt(i + 1))
             IN  IF DoubleRejected(r)
                 THEN Fail(Usage(flags[flag], "<double>"), MICRO_FLAG_ERROR_NOT_A_DOUBLE)
                 ELSE Consume([dest[flag] EXCEPT !.d = r.val])

\* lines 274-294
MatchDouble ==
  /\ AtMatch(MICRO_FLAG_DOUBLE)
  /\ IF MissingValue
     THEN /\ Fail(Usage(flags[flag], "<double>"), MICRO_FLAG_ERROR_MISSING_DOUBLE)
          /\ UNCHANGED consumed
     ELSE /\ consumed' = consumed \cup {i + 1}
          /\ LET r == strtod(ArgAt(i + 1))
             IN  IF DoubleRejected(r)
                 THEN Fail(Usage(flags[flag], "<double>"), MICRO_FLAG_ERROR_NOT_A_DOUBLE)
                 ELSE Consume([dest[flag] EXCEPT !.d = r.val])

\* lines 295-296: no case names the type; the return has no printf
MatchUnknownType ==
  /\ pc = "inner"
  /\ flag < num_flags
  /\ Matches(flags[flag], ArgAt(i))
  /\ flags[flag].type \notin {MICRO_FLAG_BOOL, MICRO_FLAG_CHAR, MICRO_FLAG_STR,
                              MICRO_FLAG_INT, MICRO_FLAG_DOUBLE}
  /\ compared' = compared \cup {i}
  /\ found' = TRUE
  /\ Return(MICRO_FLAG_ERROR_UNKNOWN_TYPE)
  /\ UNCHANGED <<args, dest, i, flag, out, consumed, written, starts>>

\* an unknown token reported and skipped in place of returned on
UnknownFlagSkipped ==
  /\ pc = "inner"
  /\ ~(flag < num_flags)
  /\ ~found
  /\ out' = Append(out, <<"Error parsing flags: unknown flag", ArgAt(i)>>)
  /\ i' = i + 1
  /\ pc' = "outer"
  /\ UNCHANGED <<args, dest, flag, found, ret, compared, consumed, written, starts>>

\* lines 300-304: the scan is over and nothing matched
UnknownFlag ==
  /\ pc = "inner"
  /\ ~(flag < num_flags)
  /\ ~found
  /\ out' = Append(out, <<"Error parsing flags: unknown flag", ArgAt(i)>>)
  /\ Return(MICRO_FLAG_ERROR_UNKNOWN_FLAG)
  /\ UNCHANGED <<args, dest, i, flag, found, compared, consumed, written, starts>>

\* lines 300, 305, 208: the scan is over and something matched, ++i
OuterNext ==
  /\ pc = "inner"
  /\ ~(flag < num_flags)
  /\ found
  /\ i' = i + 1
  /\ pc' = "outer"
  /\ UNCHANGED <<args, dest, flag, found, ret, out, compared, consumed, written, starts>>

Next ==
  \/ OuterEnter
  \/ ReturnOk
  \/ NoMatch
  \/ MatchBool
  \/ MatchChar
  \/ MatchStr
  \/ MatchInt
  \/ MatchDouble
  \/ MatchUnknownType
  \/ UnknownFlag
  \/ OuterNext

Spec == Init /\ [][Next]_vars

TypeOK ==
  /\ pc \in {"outer", "inner", "done"}
  /\ i \in 1..(MaxArgc + 1)
  /\ flag \in 0..num_flags
  /\ found \in BOOLEAN
  /\ written \subseteq DOMAIN flags

\* ------------------------------------------------------------------------
\* Vocabulary of the properties
\* ------------------------------------------------------------------------
Done == pc = "done"

Kinds == {MICRO_FLAG_BOOL, MICRO_FLAG_CHAR, MICRO_FLAG_STR, MICRO_FLAG_INT,
          MICRO_FLAG_DOUBLE}

ValueKinds == Kinds \ {MICRO_FLAG_BOOL}

Errors == {MICRO_FLAG_ERROR_UNKNOWN_TYPE, MICRO_FLAG_ERROR_MISSING_CHAR,
           MICRO_FLAG_ERROR_MISSING_STR, MICRO_FLAG_ERROR_MISSING_INT,
           MICRO_FLAG_ERROR_MISSING_DOUBLE, MICRO_FLAG_ERROR_CHAR_WRONG_ARG,
           MICRO_FLAG_ERROR_UNKNOWN_FLAG, MICRO_FLAG_ERROR_NOT_AN_INT,
           MICRO_FLAG_ERROR_NOT_A_DOUBLE}

\* the token is one of the names of the flag (string equality)
HasName(f, tok) == tok # NULL /\ tok \in {flags[f].short_name, flags[f].long_name}

\* the flags the token names
Named(tok) == {f \in DOMAIN flags : HasName(f, tok)}

\* no two flags of the table share a name
DistinctNames ==
  \A f, g \in DOMAIN flags :
    f # g => {flags[f].short_name, flags[f].long_name}
               \cap {flags[g].short_name, flags[g].long_name} \subseteq {NULL}

\* the token as a whole is a signed base-10 integer literal
Unsigned(tok) == IF tok # << >> /\ tok[1] \in {"-", "+"} THEN Tail(tok) ELSE tok

IsIntLiteral(tok) ==
  /\ Unsigned(tok) # << >>
  /\ \A k \in 1..Len(Unsigned(tok)) : IsDigit(Unsigned(tok)[k])

InIntRange(tok) ==
  IF tok[1] = "-" THEN ~DigitsGT(Unsigned(tok), INT_MIN)
  ELSE ~DigitsGT(Unsigned(tok), INT_MAX)

ValidInt(tok) == IsIntLiteral(tok) /\ InIntRange(tok)

IntDenoted(tok) == Accumulate(Unsigned(tok), IF tok[1] = "-" THEN -1 ELSE 1, 0)

\* the token as a whole is a decimal floating-point literal of finite value
ValidDouble(tok) ==
  LET r == strtod(tok)
  IN  tok # << >> /\ ~IsSpace(tok[1]) /\ r.endptr = Len(tok) /\ ~r.erange

ValidValue(type, tok) ==
  CASE type = MICRO_FLAG_CHAR -> Len(tok) = 1
    [] type = MICRO_FLAG_STR -> TRUE
    [] type = MICRO_FLAG_INT -> ValidInt(tok)
    [] type = MICRO_FLAG_DOUBLE -> ValidDouble(tok)
    [] OTHER -> FALSE

\* the destination of flag f holds the conversion of the token (true for Bool)
Holds(f, tok) ==
  CASE flags[f].type = MICRO_FLAG_BOOL -> dest[f].b = TRUE
    [] flags[f].type = MICRO_FLAG_CHAR -> dest[f].c = tok[1]
    [] flags[f].type = MICRO_FLAG_STR -> dest[f].s = tok
    [] flags[f].type = MICRO_FLAG_INT -> dest[f].n = IntDenoted(tok)
    [] flags[f].type = MICRO_FLAG_DOUBLE -> dest[f].d = strtod(tok).val
    [] OTHER -> FALSE

\* The argument grammar of the specification, read from position k: a flag
\* token names a declared flag of a known kind, and a flag of a value kind is
\* followed by one value token valid for the kind.
TakesValue(k) == \E f \in Named(argv[k]) : flags[f].type \in ValueKinds

RECURSIVE WellFormedFrom(_)
WellFormedFrom(k) ==
  IF k >= argc THEN TRUE
  ELSE /\ Named(argv[k]) # {}
       /\ \A f \in Named(argv[k]) : flags[f].type \in Kinds
       /\ IF TakesValue(k)
          THEN /\ k + 1 < argc
               /\ \A f \in Named(argv[k]) :
                    flags[f].type \in ValueKinds => ValidValue(flags[f].type, argv[k + 1])
               /\ WellFormedFrom(k + 2)
          ELSE WellFormedFrom(k + 1)

\* the positions of the flag tokens under that grammar
RECURSIVE FlagPositions(_)
FlagPositions(k) ==
  IF k >= argc THEN {}
  ELSE {k} \cup FlagPositions(IF TakesValue(k) THEN k + 2 ELSE k + 1)

Last(S) == CHOOSE k \in S : \A m \in S : m <= k

\* ------------------------------------------------------------------------
\* Properties
\* ------------------------------------------------------------------------

\* C1: on a table of distinct names and an argument vector that follows the
\* grammar with valid values, the call returns MICRO_FLAG_OK and the
\* destination of every flag given holds the conversion of its (last) value
\* token, true for Bool.
C1_ValidInputParsesExactly ==
  (Done /\ DistinctNames /\ WellFormedFrom(1)) =>
    /\ ret = MICRO_FLAG_OK
    /\ \A f \in DOMAIN flags :
         LET P == {k \in FlagPositions(1) : HasName(f, argv[k])}
         IN  P # {} => Holds(f, ArgAt(Last(P) + 1))

\* C2: a token read as the value of a flag is skipped by the scan: while the
\* cursor is on such a token no destination is written and no error is
\* returned, whatever the token equals.
C2_ValueTokenSkipped ==
  [][ (pc = "inner" /\ i \in consumed) =>
        (dest' = dest /\ written' = written /\ ret' = ret) ]_vars

\* C3: two flags of known kinds with the same short name: when that name is
\* argv[1], occurs nowhere else and is followed by a token valid for each of
\* the two kinds that takes a value, both destinations have been written when
\* the call returns.
C3_DuplicateNamesBothWritten ==
  Done =>
    \A f, g \in DOMAIN flags :
      ( /\ f # g
        /\ flags[f].short_name # NULL
        /\ flags[f].short_name = flags[g].short_name
        /\ {flags[f].type, flags[g].type} \subseteq Kinds
        /\ argc > 1
        /\ {k \in 1..(argc - 1) : argv[k] = flags[f].short_name} = {1}
        /\ \A h \in {f, g} :
             flags[h].type \in ValueKinds =>
               argc > 2 /\ ValidValue(flags[h].type, argv[2]) )
      => {f, g} \subseteq written

\* C4: an Int flag matched with a value token after it: a token that is not
\* as a whole a signed base-10 literal within [INT_MIN, INT_MAX] is answered
\* with MICRO_FLAG_ERROR_NOT_AN_INT and no write; any other token writes the
\* integer it denotes.
C4_IntWholeTokenOrError ==
  [][ ( /\ pc = "inner"
        /\ flag < num_flags
        /\ Matches(flags[flag], ArgAt(i))
        /\ flags[flag].type = MICRO_FLAG_INT
        /\ i + 1 < argc )
      => IF ValidInt(argv[i + 1])
         THEN /\ dest' = [dest EXCEPT ![flag].n = IntDenoted(argv[i + 1])]
              /\ ret' = ret
         ELSE /\ ret' = MICRO_FLAG_ERROR_NOT_AN_INT
              /\ dest' = dest ]_vars

C6_ErrorAfterDiagnostic == (Done /\ ret # MICRO_FLAG_OK) => out # << >>

\* C7: while the scan is at a token that no declared flag names and that no
\* flag has matched, no destination is written and the cursor stays; the scan
\* is left only by returning MICRO_FLAG_ERROR_UNKNOWN_FLAG, and after that
\* return no token past the cursor has been read.
C7_UnknownFlagStops ==
  /\ [][ (pc = "inner" /\ ~found /\ i \in starts /\ Named(ArgAt(i)) = {})
         => /\ dest' = dest
            /\ written' = written
            /\ i' = i
            /\ consumed' = consumed
            /\ pc' # "outer"
            /\ pc' = "done" => ret' = MICRO_FLAG_ERROR_UNKNOWN_FLAG ]_vars
  /\ []((Done /\ ret = MICRO_FLAG_ERROR_UNKNOWN_FLAG) =>
          /\ Named(ArgAt(i)) = {}
          /\ compared \cup consumed \cup starts \subseteq 1..i)

\* an unknown token with a flag token after it that stays unread
C7_Witness ==
  /\ Done
  /\ ret = MICRO_FLAG_ERROR_UNKNOWN_FLAG
  /\ i + 1 < argc
  /\ Named(argv[i + 1]) # {}
  /\ dest = [f \in DOMAIN flags |-> DefaultCell]

\* C8: a flag of a value kind matched with no token after it returns the
\* missing-value error of its own kind and writes nothing.
C8_MissingValueOfOwnKind ==
  [][ \A t \in ValueKinds :
        ( /\ pc = "inner"
          /\ flag < num_flags
          /\ HasName(flag, ArgAt(i))
          /\ flags[flag].type = t
          /\ i + 1 >= argc )
        => /\ pc' = "done"
           /\ dest' = dest
           /\ written' = written
           /\ ret' = CASE t = MICRO_FLAG_CHAR -> MICRO_FLAG_ERROR_MISSING_CHAR
                       [] t = MICRO_FLAG_STR -> MICRO_FLAG_ERROR_MISSING_STR
                       [] t = MICRO_FLAG_INT -> MICRO_FLAG_ERROR_MISSING_INT
                       [] t = MICRO_FLAG_DOUBLE -> MICRO_FLAG_ERROR_MISSING_DOUBLE ]_vars

\* a Double flag matched by the last token of the vector
C8_Witness ==
  /\ Done
  /\ ret = MICRO_FLAG_ERROR_MISSING_DOUBLE
  /\ flags[flag].type = MICRO_FLAG_DOUBLE
  /\ HasName(flag, ArgAt(i))
  /\ i = argc - 1
  /\ flag \notin written

\* C9: the step that returns an error writes no destination, and once the
\* call has returned nothing is read or written any more, so what earlier
\* tokens wrote stays.
C9_ErrorStopsScanKeepsWrites ==
  /\ [][ (ret = "none" /\ ret' \in Errors) => (dest' = dest /\ written' = written) ]_vars
  /\ [][ ret = "none" ]_vars

\* an error at the second token after the first token wrote a destination
C9_Witness ==
  /\ Done
  /\ ret \in Errors
  /\ i = 2
  /\ 2 \in starts
  /\ \E f \in written : dest[f] # DefaultCell

\* C10: argv is read only at indices 1..argc-1: the cursor of a scan in
\* progress is in range, and so is every index read by strcmp or as a value.
C10_ArgvInBounds ==
  /\ pc = "inner" => (1 <= i /\ i < argc)
  /\ compared \cup consumed \subseteq 1..(argc - 1)

\* the cursor was advanced inside the scan, onto the last token, by the first
\* of two flags that both have the name of the token before it
C10_Witness ==
  /\ pc = "inner"
  /\ flag = 1
  /\ num_flags > 1
  /\ i = argc - 1
  /\ i \in consumed
  /\ Named(argv[i - 1]) = {0, 1}

====
